---- MODULE Spec2Model ----
(***************************************************************************)
(* Model of the Picross game of cosmic-ext-picross: the puzzle model of    *)
(* src/app/game.rs (Board, Game, wincheck) and the message handlers and    *)
(* the message-emitting part of the view of src/app.rs.                    *)
(*                                                                         *)
(* Vectors are 0-based in the source and 1-based here: board_vec[id] of    *)
(* the source is board_vec[id + 1] of the model.  Strings are sequences of *)
(* one-character strings, so that parsing is computed character by         *)
(* character.                                                              *)
(***************************************************************************)
EXTENDS Integers, Sequences, FiniteSets

VARIABLES game, panicked

vars == <<game, panicked>>

(***************************************************************************)
(* Bounds of the exploration.                                              *)
(***************************************************************************)
\* StartPressed is explored only for boards of at most MaxCells cells.
MaxCells == 4

\* Number of sampled shuffles for a board too large to enumerate.
MaxSeeds == 2

(***************************************************************************)
(* Program constants (Game::new).                                          *)
(***************************************************************************)
DefaultWidth == 10

DefaultHeight == 10

DefaultFilledCount == 40

DefaultWidthInput == <<"1", "0">>

DefaultHeightInput == <<"1", "0">>

DefaultFilledCountInput == <<"6", "5">>

Winstates == {"Won", "Lost", "InProgress"}

Min(a, b) == IF a <= b THEN a ELSE b

(***************************************************************************)
(* str::parse::<usize>: an optional leading "+", then at least one decimal *)
(* digit and nothing else.  The result is Ok(val) or Err.  (Overflow of    *)
(* usize needs twenty digits and is outside the strings explored.)         *)
(***************************************************************************)
Digits == <<"0", "1", "2", "3", "4", "5", "6", "7", "8", "9">>

IsDigit(c) == \E d \in 1..Len(Digits) : Digits[d] = c

DigitVal(c) == (CHOOSE d \in 1..Len(Digits) : Digits[d] = c) - 1

RECURSIVE ParseDigits(_, _)
ParseDigits(s, acc) ==
    IF s = <<>> THEN [ok |-> TRUE, val |-> acc]
    ELSE IF ~IsDigit(Head(s)) THEN [ok |-> FALSE, val |-> 0]
    ELSE ParseDigits(Tail(s), acc * 10 + DigitVal(Head(s)))

parse(s) ==
    LET digits == IF s # <<>> /\ Head(s) = "+" THEN Tail(s) ELSE s
    IN  IF digits = <<>> THEN [ok |-> FALSE, val |-> 0]
        ELSE ParseDigits(digits, 0)

(***************************************************************************)
(* game.rs                                                                 *)
(***************************************************************************)
pair_to_index(row, column, width) == row * width + column

gen_empty(width, height) ==
    [board_vec |-> [i \in 1..(width * height) |->
                        [hidden |-> TRUE, empty |-> TRUE, marked |-> FALSE]],
     width |-> width,
     height |-> height,
     filled_count |-> 0,
     vertical_count |-> <<>>,
     horizontal_count |-> <<>>]

\* The shuffles of (0..n) explored when n is too large to enumerate them
\* all: the permutations i |-> (stride * i + seed) % n with stride = 2 * seed + 1.
SampleShuffles(n) ==
    {p \in {[i \in 1..n |-> ((i - 1) * (2 * seed + 1) + seed) % n] :
                seed \in 0..(MaxSeeds - 1)} :
        \A i, j \in 1..n : p[i] = p[j] => i = j}

\* ids.iter().take(filled_count) of a shuffled ids: the set of the first
\* filled_count ids of the shuffle (all n of them when filled_count > n).
\* Every subset of that size is the outcome of some shuffle.
ShuffleTake(n, filled_count) ==
    IF n <= MaxCells
    THEN {S \in SUBSET (0..(n - 1)) : Cardinality(S) = Min(filled_count, n)}
    ELSE {{p[i] : i \in 1..Min(filled_count, n)} : p \in SampleShuffles(n)}

\* taken: the ids the shuffle put first.
fill_boxes_randomly(board, taken) ==
    [board EXCEPT !.board_vec =
        [i \in 1..Len(board.board_vec) |->
            IF (i - 1) \in taken
            THEN [board.board_vec[i] EXCEPT !.empty = FALSE]
            ELSE board.board_vec[i]]]

\* VerticalFold with the last-row test off by one (row == self.height): the
\* run that ends on the last cell of the column is never pushed.
RECURSIVE VerticalFold_LastRowOffByOne(_, _, _, _)
VerticalFold_LastRowOffByOne(board, column, row, st) ==
    IF row >= board.height THEN st.acc
    ELSE
        LET tile_is_empty ==
                board.board_vec[pair_to_index(row, column, board.width) + 1].empty
            next ==
                IF st.consecutive > 0 /\ tile_is_empty
                THEN [acc |-> Append(st.acc, st.consecutive), consecutive |-> 0]
                ELSE IF ~tile_is_empty /\ row = board.height
                THEN [acc |-> Append(st.acc, st.consecutive + 1),
                      consecutive |-> st.consecutive + 1]
                ELSE IF tile_is_empty
                THEN st
                ELSE [acc |-> st.acc, consecutive |-> st.consecutive + 1]
        IN  VerticalFold_LastRowOffByOne(board, column, row + 1, next)

\* The fold of count_vertical over the rows row..height-1 of one column;
\* st = [acc, consecutive].
RECURSIVE VerticalFold(_, _, _, _)
VerticalFold(board, column, row, st) ==
    IF row >= board.height THEN st.acc
    ELSE
        LET tile_is_empty ==
                board.board_vec[pair_to_index(row, column, board.width) + 1].empty
            next ==
                IF st.consecutive > 0 /\ tile_is_empty
                THEN [acc |-> Append(st.acc, st.consecutive), consecutive |-> 0]
                ELSE IF ~tile_is_empty /\ row = board.height - 1
                THEN [acc |-> Append(st.acc, st.consecutive + 1),
                      consecutive |-> st.consecutive + 1]
                ELSE IF tile_is_empty
                THEN st
                ELSE [acc |-> st.acc, consecutive |-> st.consecutive + 1]
        IN  VerticalFold(board, column, row + 1, next)

count_vertical(board) ==
    [board EXCEPT !.vertical_count =
        [c \in 1..board.width |->
            VerticalFold(board, c - 1, 0, [acc |-> <<>>, consecutive |-> 0])]]

RECURSIVE HorizontalFold(_, _, _, _)
HorizontalFold(board, row, column, st) ==
    IF column >= board.width THEN st.acc
    ELSE
        LET tile_is_empty ==
                board.board_vec[pair_to_index(row, column, board.width) + 1].empty
            next ==
                IF st.consecutive > 0 /\ tile_is_empty
                THEN [acc |-> Append(st.acc, st.consecutive), consecutive |-> 0]
                ELSE IF ~tile_is_empty /\ column = board.width - 1
                THEN [acc |-> Append(st.acc, st.consecutive + 1),
                      consecutive |-> st.consecutive + 1]
                ELSE IF tile_is_empty
                THEN st
                ELSE [acc |-> st.acc, consecutive |-> st.consecutive + 1]
        IN  HorizontalFold(board, row, column + 1, next)

count_horizontal(board) ==
    [board EXCEPT !.horizontal_count =
        [r \in 1..board.height |->
            HorizontalFold(board, r - 1, 0, [acc |-> <<>>, consecutive |-> 0])]]

\* Board::new without board.filled_count = filled_count.
BoardNew_FilledCountNotSet(width, height, filled_count, taken) ==
    LET b0 == gen_empty(width, height)
        b1 == fill_boxes_randomly(b0, taken)
        b3 == count_vertical(b1)
    IN  count_horizontal(b3)

\* Board::new, for the shuffle outcome taken.
BoardNew(width, height, filled_count, taken) ==
    LET b0 == gen_empty(width, height)
        b1 == fill_boxes_randomly(b0, taken)
        b2 == [b1 EXCEPT !.filled_count = filled_count]
        b3 == count_vertical(b2)
    IN  count_horizontal(b3)

\* Game::new with the placeholder board built from the default of the filled
\* count input (65) instead of 40.
GameNew_BoardFromInputDefault(taken) ==
    [board |-> BoardNew(DefaultWidth, DefaultHeight,
                        parse(DefaultFilledCountInput).val, taken),
     menu |-> [width_input |-> DefaultWidthInput,
               height_input |-> DefaultHeightInput,
               filled_count_input |-> DefaultFilledCountInput,
               start_pressed |-> FALSE],
     winstate |-> "InProgress"]

\* Game::new, for the shuffle outcome taken.
GameNew(taken) ==
    [board |-> BoardNew(DefaultWidth, DefaultHeight, DefaultFilledCount, taken),
     menu |-> [width_input |-> DefaultWidthInput,
               height_input |-> DefaultHeightInput,
               filled_count_input |-> DefaultFilledCountInput,
               start_pressed |-> FALSE],
     winstate |-> "InProgress"]

\* wincheck without the test for a loss.
wincheck_NeverLost(g) ==
    LET bv == g.board.board_vec
    IN  IF \A i \in 1..Len(bv) :
              \/ (bv[i].empty = FALSE /\ bv[i].hidden = FALSE)
              \/ (bv[i].empty = TRUE /\ bv[i].hidden = TRUE)
        THEN [g EXCEPT !.winstate = "Won",
                       !.board.board_vec =
                           [i \in 1..Len(bv) |->
                               IF (i - 1) \in 0..(g.board.width * g.board.height - 1)
                               THEN [bv[i] EXCEPT !.hidden = FALSE]
                               ELSE bv[i]]]
        ELSE [g EXCEPT !.winstate = "InProgress"]

\* wincheck that reveals every cell on Lost as it does on Won.
wincheck_RevealAllOnLost(g) ==
    LET bv == g.board.board_vec
        revealed == [i \in 1..Len(bv) |->
                        IF (i - 1) \in 0..(g.board.width * g.board.height - 1)
                        THEN [bv[i] EXCEPT !.hidden = FALSE]
                        ELSE bv[i]]
    IN  IF \A i \in 1..Len(bv) :
              \/ (bv[i].empty = FALSE /\ bv[i].hidden = FALSE)
              \/ (bv[i].empty = TRUE /\ bv[i].hidden = TRUE)
        THEN [g EXCEPT !.winstate = "Won", !.board.board_vec = revealed]
        ELSE IF \E i \in 1..Len(bv) :
                   bv[i].empty = TRUE /\ bv[i].hidden = FALSE
        THEN [g EXCEPT !.winstate = "Lost", !.board.board_vec = revealed]
        ELSE [g EXCEPT !.winstate = "InProgress"]

\* wincheck with all() in place of any() in the test for a loss.
wincheck_LostNeedsAll(g) ==
    LET bv == g.board.board_vec
    IN  IF \A i \in 1..Len(bv) :
              \/ (bv[i].empty = FALSE /\ bv[i].hidden = FALSE)
              \/ (bv[i].empty = TRUE /\ bv[i].hidden = TRUE)
        THEN [g EXCEPT !.winstate = "Won",
                       !.board.board_vec =
                           [i \in 1..Len(bv) |->
                               IF (i - 1) \in 0..(g.board.width * g.board.height - 1)
                               THEN [bv[i] EXCEPT !.hidden = FALSE]
                               ELSE bv[i]]]
        ELSE IF \A i \in 1..Len(bv) :
                   bv[i].empty = TRUE /\ bv[i].hidden = FALSE
        THEN [g EXCEPT !.winstate = "Lost"]
        ELSE [g EXCEPT !.winstate = "InProgress"]

\* wincheck without the loop that reveals every cell on Won.
wincheck_NoRevealAll(g) ==
    LET bv == g.board.board_vec
    IN  IF \A i \in 1..Len(bv) :
              \/ (bv[i].empty = FALSE /\ bv[i].hidden = FALSE)
              \/ (bv[i].empty = TRUE /\ bv[i].hidden = TRUE)
        THEN [g EXCEPT !.winstate = "Won"]
        ELSE IF \E i \in 1..Len(bv) :
                   bv[i].empty = TRUE /\ bv[i].hidden = FALSE
        THEN [g EXCEPT !.winstate = "Lost"]
        ELSE [g EXCEPT !.winstate = "InProgress"]

wincheck(g) ==
    LET bv == g.board.board_vec
    IN  IF \A i \in 1..Len(bv) :
              \/ (bv[i].empty = FALSE /\ bv[i].hidden = FALSE)
              \/ (bv[i].empty = TRUE /\ bv[i].hidden = TRUE)
        THEN [g EXCEPT !.winstate = "Won",
                       !.board.board_vec =
                           [i \in 1..Len(bv) |->
                               IF (i - 1) \in 0..(g.board.width * g.board.height - 1)
                               THEN [bv[i] EXCEPT !.hidden = FALSE]
                               ELSE bv[i]]]
        ELSE IF \E i \in 1..Len(bv) :
                   bv[i].empty = TRUE /\ bv[i].hidden = FALSE
        THEN [g EXCEPT !.winstate = "Lost"]
        ELSE [g EXCEPT !.winstate = "InProgress"]

(***************************************************************************)
(* app.rs: Picross::update, one operator per arm of the match.             *)
(***************************************************************************)
\* Reveal that writes the empty field of the tile instead of hidden.
UpdateReveal_WritesEmpty(g, id) ==
    wincheck([g EXCEPT !.board.board_vec[id + 1].empty = FALSE])

\* Reveal without the call of wincheck.
UpdateReveal_NoWincheck(g, id) ==
    [g EXCEPT !.board.board_vec[id + 1].hidden = FALSE]

UpdateReveal(g, id) ==
    wincheck([g EXCEPT !.board.board_vec[id + 1].hidden = FALSE])

\* Mark that sets the flag instead of toggling it.
UpdateMark_SetsFlag(g, id) ==
    wincheck([g EXCEPT !.board.board_vec[id + 1].marked = TRUE])

UpdateMark(g, id) ==
    wincheck([g EXCEPT !.board.board_vec[id + 1].marked =
                           ~g.board.board_vec[id + 1].marked])

UpdateInputWidth(g, input) == [g EXCEPT !.menu.width_input = input]

\* InputHeight that writes the width field.
UpdateInputHeight_WritesWidth(g, input) == [g EXCEPT !.menu.width_input = input]

UpdateInputHeight(g, input) == [g EXCEPT !.menu.height_input = input]

UpdateInputFilledCount(g, input) == [g EXCEPT !.menu.filled_count_input = input]

\* The three parse().unwrap() of StartPressed, in order: the game after the
\* assignments that ran, and whether an unwrap panicked.
StartPressedParse(g) ==
    LET w == parse(g.menu.width_input)
        h == parse(g.menu.height_input)
        k == parse(g.menu.filled_count_input)
        g1 == [g EXCEPT !.board.width = w.val]
        g2 == [g1 EXCEPT !.board.height = h.val]
        g3 == [g2 EXCEPT !.board.filled_count = k.val]
    IN  IF ~w.ok THEN [game |-> g, panicked |-> TRUE]
        ELSE IF ~h.ok THEN [game |-> g1, panicked |-> TRUE]
        ELSE IF ~k.ok THEN [game |-> g2, panicked |-> TRUE]
        ELSE [game |-> g3, panicked |-> FALSE]

\* StartPressed with width and height swapped in the call of Board::new.
UpdateStartPressed_SwapsDimensions(g, taken) ==
    LET g3 == StartPressedParse(g).game
    IN  [g3 EXCEPT !.board = BoardNew(g3.board.height, g3.board.width,
                                      g3.board.filled_count, taken),
                   !.menu.start_pressed = TRUE]

\* The rest of StartPressed once the three fields have parsed.
UpdateStartPressed(g, taken) ==
    LET g3 == StartPressedParse(g).game
    IN  [g3 EXCEPT !.board = BoardNew(g3.board.width, g3.board.height,
                                      g3.board.filled_count, taken),
                   !.menu.start_pressed = TRUE]

\* Reset without self.game.winstate = Winstate::InProgress.
UpdateReset_KeepsWinstate(g, taken) ==
    [g EXCEPT !.board = BoardNew(g.board.width, g.board.height,
                                 g.board.filled_count, taken)]

UpdateReset(g, taken) ==
    [g EXCEPT !.board = BoardNew(g.board.width, g.board.height,
                                 g.board.filled_count, taken),
              !.winstate = "InProgress"]

(***************************************************************************)
(* app.rs: the messages the view can emit.                                 *)
(***************************************************************************)
\* view: menu(&self.game) is shown.
MenuShown == ~panicked /\ ~game.menu.start_pressed

\* view: playfield(&self.game) is shown.
PlayfieldShown == ~panicked /\ game.menu.start_pressed

\* playboard with an inclusive range of rows (0..=height).
TileIds_RowsInclusive ==
    {pair_to_index(row, column, game.board.width) :
        row \in 0..game.board.height,
        column \in 0..(game.board.width - 1)}

\* playboard: the ids of the tile buttons of the grid.
TileIds ==
    {pair_to_index(row, column, game.board.width) :
        row \in 0..(game.board.height - 1),
        column \in 0..(game.board.width - 1)}

\* tilebutton attaching on_press and on_right_press in every winstate.
TilePressable_AnyWinstate == PlayfieldShown

\* tilebutton: on_press and on_right_press are attached only in InProgress.
TilePressable == PlayfieldShown /\ game.winstate = "InProgress"

\* The strings typed into the text inputs of the menu.
InputStrings ==
    {<<>>, <<"x">>, <<"+", "1">>} \cup {<<Digits[d + 1]>> : d \in 0..(MaxCells + 1)}

(***************************************************************************)
(* Actions: one message delivered to update.                               *)
(***************************************************************************)
\* The sessions Game::new can return, one per shuffle outcome.
NewGames ==
    {GameNew(taken) :
        taken \in ShuffleTake(DefaultWidth * DefaultHeight, DefaultFilledCount)}

Init ==
    /\ game \in NewGames
    /\ panicked = FALSE

Reveal(id) ==
    /\ TilePressable
    /\ id \in TileIds
    /\ game' = UpdateReveal(game, id)
    /\ UNCHANGED panicked

Mark(id) ==
    /\ TilePressable
    /\ id \in TileIds
    /\ game' = UpdateMark(game, id)
    /\ UNCHANGED panicked

GotoMenu ==
    /\ PlayfieldShown
    /\ game' \in NewGames
    /\ UNCHANGED panicked

InputWidth(input) ==
    /\ MenuShown
    /\ game' = UpdateInputWidth(game, input)
    /\ UNCHANGED panicked

InputHeight(input) ==
    /\ MenuShown
    /\ game' = UpdateInputHeight(game, input)
    /\ UNCHANGED panicked

InputFilledCount(input) ==
    /\ MenuShown
    /\ game' = UpdateInputFilledCount(game, input)
    /\ UNCHANGED panicked

StartPressed ==
    /\ MenuShown
    /\ LET r == StartPressedParse(game)
       IN  /\ ~r.panicked
           /\ r.game.board.width * r.game.board.height <= MaxCells
           /\ \E taken \in ShuffleTake(r.game.board.width * r.game.board.height,
                                       r.game.board.filled_count) :
                  game' = UpdateStartPressed(game, taken)
    /\ UNCHANGED panicked

\* StartPressed when an unwrap panics: the process aborts.
StartPressedPanic ==
    /\ MenuShown
    /\ LET r == StartPressedParse(game)
       IN  /\ r.panicked
           /\ game' = r.game
    /\ panicked' = TRUE

Reset ==
    /\ PlayfieldShown
    /\ \E taken \in ShuffleTake(game.board.width * game.board.height,
                                game.board.filled_count) :
           game' = UpdateReset(game, taken)
    /\ UNCHANGED panicked

Next ==
    \/ \E id \in 0..(MaxCells + 1) : Reveal(id)
    \/ \E id \in 0..(MaxCells + 1) : Mark(id)
    \/ GotoMenu
    \/ \E input \in InputStrings : InputWidth(input)
    \/ \E input \in InputStrings : InputHeight(input)
    \/ \E input \in InputStrings : InputFilledCount(input)
    \/ StartPressed
    \/ StartPressedPanic
    \/ Reset

Spec == Init /\ [][Next]_vars

(***************************************************************************)
(* The controller when Reveal and Mark reach update whatever the winstate  *)
(* (update itself does not look at winstate): the messages of a playfield  *)
(* built while the game was in progress, delivered after it has ended.     *)
(***************************************************************************)
RevealDelivered(id) ==
    /\ PlayfieldShown
    /\ id \in TileIds
    /\ game' = UpdateReveal(game, id)
    /\ UNCHANGED panicked

MarkDelivered(id) ==
    /\ PlayfieldShown
    /\ id \in TileIds
    /\ game' = UpdateMark(game, id)
    /\ UNCHANGED panicked

NextCore ==
    \/ \E id \in 0..(MaxCells + 1) : RevealDelivered(id)
    \/ \E id \in 0..(MaxCells + 1) : MarkDelivered(id)
    \/ GotoMenu
    \/ \E input \in InputStrings : InputWidth(input)
    \/ \E input \in InputStrings : InputHeight(input)
    \/ \E input \in InputStrings : InputFilledCount(input)
    \/ StartPressed
    \/ StartPressedPanic
    \/ Reset

SpecCore == Init /\ [][NextCore]_vars

(***************************************************************************)
(* One game played to its end: the program without the Reset and Menu      *)
(* buttons, and a player who, as long as a hidden tile can be pressed,     *)
(* eventually presses one.                                                 *)
(***************************************************************************)
\* on_press of a tile that is still hidden.
RevealHidden(id) ==
    /\ Reveal(id)
    /\ game.board.board_vec[id + 1].hidden

NextLive ==
    \/ \E id \in 0..(MaxCells + 1) : Reveal(id)
    \/ \E id \in 0..(MaxCells + 1) : Mark(id)
    \/ \E input \in InputStrings : InputWidth(input)
    \/ \E input \in InputStrings : InputHeight(input)
    \/ \E input \in InputStrings : InputFilledCount(input)
    \/ StartPressed
    \/ StartPressedPanic

SpecLive ==
    /\ Init
    /\ [][NextLive]_vars
    /\ WF_vars(\E id \in 0..(MaxCells + 1) : RevealHidden(id))

(***************************************************************************)
(* Vocabulary of the properties.                                           *)
(***************************************************************************)
Cells == game.board.board_vec

CellIds == 0..(Len(Cells) - 1)

Tile(g, id) == g.board.board_vec[id + 1]

FilledIds(g) == {id \in 0..(Len(g.board.board_vec) - 1) : ~Tile(g, id).empty}

EmptyIds(g) == {id \in 0..(Len(g.board.board_vec) - 1) : Tile(g, id).empty}

RevealedIds(g) == {id \in 0..(Len(g.board.board_vec) - 1) : ~Tile(g, id).hidden}

MarkedIds(g) == {id \in 0..(Len(g.board.board_vec) - 1) : Tile(g, id).marked}

\* W >= 1, H >= 1, 0 <= K <= W * H.
ValidBoard(b) ==
    /\ b.width >= 1
    /\ b.height >= 1
    /\ b.filled_count <= b.width * b.height

\* A game is being played on a board built from valid inputs.
Playing == ~panicked /\ game.menu.start_pressed /\ ValidBoard(game.board)

(***************************************************************************)
(* C1.  In a started session with winstate = InProgress, Reveal(id) of a   *)
(* hidden cell that is empty sets the cell's hidden flag to false and      *)
(* leaves winstate = Lost.                                                 *)
(***************************************************************************)
C1_RevealEmptyLoses ==
    [][\A id \in TileIds :
          (/\ Reveal(id)
           /\ game.winstate = "InProgress"
           /\ Tile(game, id).hidden
           /\ Tile(game, id).empty)
          => (/\ Tile(game', id).hidden = FALSE
              /\ game'.winstate = "Lost")]_vars

\* A game lost by the reveal of an empty cell, other cells still hidden.
C1_Witness ==
    /\ Playing
    /\ game.winstate = "Lost"
    /\ EmptyIds(game) \cap RevealedIds(game) # {}
    /\ RevealedIds(game) # CellIds

(***************************************************************************)
(* C2.  From a fresh InProgress board, revealing only filled cells:        *)
(* winstate stays InProgress after every reveal but the one of the last    *)
(* filled cell still hidden, and after that one winstate = Won and every   *)
(* cell has hidden = false.                                                *)
(***************************************************************************)
C2_RevealFilledWins ==
    [][\A id \in TileIds :
          (/\ Reveal(id)
           /\ game.winstate = "InProgress"
           /\ ~Tile(game, id).empty
           /\ EmptyIds(game) \cap RevealedIds(game) = {})
          => IF FilledIds(game) \subseteq (RevealedIds(game) \cup {id})
             THEN /\ game'.winstate = "Won"
                  /\ RevealedIds(game') = 0..(Len(game'.board.board_vec) - 1)
             ELSE game'.winstate = "InProgress"]_vars

\* A game won on a board of at least two filled cells and an empty one.
C2_Witness ==
    /\ Playing
    /\ game.winstate = "Won"
    /\ Cardinality(FilledIds(game)) >= 2
    /\ EmptyIds(game) # {}
    /\ MarkedIds(game) = {}

(***************************************************************************)
(* C3.  In every reachable state, winstate = Won implies that every cell   *)
(* of the board has hidden = false.                                        *)
(***************************************************************************)
C3_WonAllRevealed ==
    game.winstate = "Won" => \A id \in CellIds : Tile(game, id).hidden = FALSE

\* A won game whose board has an empty cell, revealed by the win-check.
C3_Witness ==
    /\ Playing
    /\ game.winstate = "Won"
    /\ EmptyIds(game) # {}
    /\ EmptyIds(game) \subseteq RevealedIds(game)

(***************************************************************************)
(* C4.  Terminal absorption: once winstate is Won or Lost, a Reveal(id) or *)
(* Mark(id) delivered to the controller leaves winstate as it is.          *)
(***************************************************************************)
C4_TerminalAbsorbing ==
    [][\A id \in TileIds :
          (/\ game.winstate \in {"Won", "Lost"}
           /\ (RevealDelivered(id) \/ MarkDelivered(id)))
          => game'.winstate = game.winstate]_vars

(***************************************************************************)
(* C5.  The win-check is idempotent: on every board the program hands to   *)
(* wincheck (the board of a Reveal or of a Mark the playfield offers),     *)
(* applying wincheck a second time leaves winstate as the first left it.   *)
(***************************************************************************)
C5_WincheckIdempotent ==
    TilePressable =>
        \A id \in TileIds :
            \A g0 \in {[game EXCEPT !.board.board_vec[id + 1].hidden = FALSE],
                       [game EXCEPT !.board.board_vec[id + 1].marked =
                                        ~Tile(game, id).marked]} :
                wincheck(wincheck(g0)).winstate = wincheck(g0).winstate

(***************************************************************************)
(* C6.  On every valid board with winstate = InProgress, a fresh board     *)
(* included, Mark(id) leaves winstate = InProgress and changes no cell's   *)
(* hidden flag.                                                            *)
(***************************************************************************)
C6_MarkKeepsInProgress ==
    [][\A id \in TileIds :
          (/\ Mark(id)
           /\ ValidBoard(game.board)
           /\ game.winstate = "InProgress")
          => (/\ game'.winstate = "InProgress"
              /\ RevealedIds(game') = RevealedIds(game))]_vars

(***************************************************************************)
(* C7.  Mark(id) toggles cells[id].marked and leaves the marked flag of    *)
(* every other cell unchanged; a second Mark(id) right after it restores   *)
(* the original marked value of cell id.                                   *)
(***************************************************************************)
C7_MarkToggles ==
    [][\A id \in TileIds :
          Mark(id)
          => (/\ Tile(game', id).marked = ~Tile(game, id).marked
              /\ \A other \in CellIds \ {id} :
                     Tile(game', other).marked = Tile(game, other).marked
              /\ Tile(UpdateMark(game', id), id).marked = Tile(game, id).marked)]_vars

\* A game in progress with a marked cell and an unmarked one, after a reveal.
C7_Witness ==
    /\ Playing
    /\ game.winstate = "InProgress"
    /\ MarkedIds(game) # {}
    /\ MarkedIds(game) # CellIds
    /\ RevealedIds(game) # {}

(***************************************************************************)
(* C8.  In every reachable state every cell with marked = true also has    *)
(* hidden = true.                                                          *)
(***************************************************************************)
C8_MarkedOnlyWhenHidden ==
    \A id \in CellIds : Tile(game, id).marked => Tile(game, id).hidden

(***************************************************************************)
(* C9.  For every board built with valid inputs, and in every state        *)
(* reached from it by Reveal and Mark, the cell sequence has exactly       *)
(* width * height entries and exactly filled_count of them are filled.     *)
(* (A panic of StartPressed ends the process half-way through its          *)
(* assignments: no board is built.)                                        *)
(***************************************************************************)
C9_BoardSize ==
    (~panicked /\ ValidBoard(game.board))
    => (/\ Len(Cells) = game.board.width * game.board.height
        /\ Cardinality(FilledIds(game)) = game.board.filled_count)

\* A played board, partly filled, on which a Reveal and a Mark have acted.
C9_Witness ==
    /\ Playing
    /\ game.board.filled_count >= 2
    /\ game.board.filled_count < game.board.width * game.board.height
    /\ RevealedIds(game) # {}
    /\ MarkedIds(game) # {}

(***************************************************************************)
(* C10.  For every built board, vertical_count[c] is the sequence of the   *)
(* lengths of the maximal runs of consecutive filled cells of column c,    *)
(* top to bottom, and horizontal_count[r] the same for row r, left to      *)
(* right.                                                                  *)
(***************************************************************************)
\* The lengths of the maximal runs of TRUE of a sequence of booleans, in order.
RunLengths(line) ==
    LET n == Len(line)
        starts == {s \in 1..n : line[s] /\ (s = 1 \/ ~line[s - 1])}
        start(k) == CHOOSE s \in starts : Cardinality({t \in starts : t < s}) = k - 1
        end(s) == CHOOSE e \in s..n :
                      /\ \A j \in s..e : line[j]
                      /\ (e = n \/ ~line[e + 1])
    IN  [k \in 1..Cardinality(starts) |-> end(start(k)) - start(k) + 1]

ColumnLine(b, column) ==
    [r \in 1..b.height |-> ~b.board_vec[(r - 1) * b.width + column + 1].empty]

RowLine(b, row) ==
    [c \in 1..b.width |-> ~b.board_vec[row * b.width + (c - 1) + 1].empty]

C10_CluesAreRunLengths ==
    ~panicked =>
        /\ game.board.vertical_count =
               [c \in 1..game.board.width |->
                   RunLengths(ColumnLine(game.board, c - 1))]
        /\ game.board.horizontal_count =
               [r \in 1..game.board.height |->
                   RunLengths(RowLine(game.board, r - 1))]

\* A played board with a line of two runs, the second ending on the last
\* cell of the line, a fully filled line and an empty line.
C10_Witness ==
    /\ Playing
    /\ LET b == game.board
           lines == {ColumnLine(b, c) : c \in 0..(b.width - 1)}
                        \cup {RowLine(b, r) : r \in 0..(b.height - 1)}
       IN  /\ \E l \in lines : Len(RunLengths(l)) >= 2 /\ l[Len(l)]
           /\ \E l \in lines : Len(l) >= 1 /\ \A j \in 1..Len(l) : l[j]
           /\ \E l \in lines : Len(l) >= 1 /\ \A j \in 1..Len(l) : ~l[j]

(***************************************************************************)
(* C11.  For every built board the entries of all column clues sum to the  *)
(* board's filled_count, and so do the entries of all row clues; per line  *)
(* the clue entries sum to the number of filled cells of the line, and no  *)
(* clue entry is zero.                                                     *)
(***************************************************************************)
RECURSIVE SeqSum(_)
SeqSum(q) == IF q = <<>> THEN 0 ELSE Head(q) + SeqSum(Tail(q))

\* The sum of the entries of all the clues of a clue vector.
ClueTotal(counts) == SeqSum([l \in 1..Len(counts) |-> SeqSum(counts[l])])

\* The number of filled cells of a line.
FilledInLine(line) == Cardinality({j \in 1..Len(line) : line[j]})

\* Per line: the entries sum to the filled cells of the line, none is zero.
CluesMatchLines(b) ==
    /\ \A c \in 1..b.width :
           /\ SeqSum(b.vertical_count[c]) = FilledInLine(ColumnLine(b, c - 1))
           /\ \A k \in 1..Len(b.vertical_count[c]) : b.vertical_count[c][k] >= 1
    /\ \A r \in 1..b.height :
           /\ SeqSum(b.horizontal_count[r]) = FilledInLine(RowLine(b, r - 1))
           /\ \A k \in 1..Len(b.horizontal_count[r]) : b.horizontal_count[r][k] >= 1

C11_ClueSums ==
    ~panicked =>
        /\ ClueTotal(game.board.vertical_count) = game.board.filled_count
        /\ ClueTotal(game.board.horizontal_count) = game.board.filled_count
        /\ CluesMatchLines(game.board)

(***************************************************************************)
(* C12.  In the menu, when the three inputs parse as W', H', K' with       *)
(* W' >= 1, H' >= 1 and K' <= W' * H', StartPressed yields started = true, *)
(* winstate = InProgress and a board of width W' and height H' with        *)
(* exactly K' filled cells, every cell hidden and unmarked.                *)
(***************************************************************************)
\* The three menu inputs as parse reads them.
ParsedWidth == parse(game.menu.width_input)

ParsedHeight == parse(game.menu.height_input)

ParsedFilledCount == parse(game.menu.filled_count_input)

InputsParse == ParsedWidth.ok /\ ParsedHeight.ok /\ ParsedFilledCount.ok

\* The parsed triple satisfies W >= 1, H >= 1, K <= W * H.
InputsValid ==
    /\ InputsParse
    /\ ParsedWidth.val >= 1
    /\ ParsedHeight.val >= 1
    /\ ParsedFilledCount.val <= ParsedWidth.val * ParsedHeight.val

C12_StartBuildsBoard ==
    [][(StartPressed /\ ~game.menu.start_pressed /\ InputsValid)
       => (/\ game'.menu.start_pressed = TRUE
           /\ game'.winstate = "InProgress"
           /\ game'.board.width = ParsedWidth.val
           /\ game'.board.height = ParsedHeight.val
           /\ Len(game'.board.board_vec) = ParsedWidth.val * ParsedHeight.val
           /\ Cardinality(FilledIds(game')) = ParsedFilledCount.val
           /\ \A id \in 0..(Len(game'.board.board_vec) - 1) :
                  Tile(game', id).hidden /\ ~Tile(game', id).marked)]_vars

\* A game just started from valid inputs on a board that is not square and
\* is partly filled.
C12_Witness ==
    /\ Playing
    /\ InputsValid
    /\ game.winstate = "InProgress"
    /\ game.board.width = ParsedWidth.val
    /\ game.board.height = ParsedHeight.val
    /\ game.board.width > game.board.height
    /\ Cardinality(FilledIds(game)) = ParsedFilledCount.val
    /\ ParsedFilledCount.val >= 1
    /\ ParsedFilledCount.val < Len(Cells)
    /\ RevealedIds(game) = {}
    /\ MarkedIds(game) = {}

(***************************************************************************)
(* C13.  StartPressed while one of the three menu fields does not parse is *)
(* refused: the session stays in the menu with started = false, and the    *)
(* board, winstate and menu inputs are unchanged.                          *)
(***************************************************************************)
C13_UnparseableRefused ==
    [][((StartPressed \/ StartPressedPanic) /\ ~InputsParse)
       => (/\ panicked' = FALSE
           /\ game' = game
           /\ game'.menu.start_pressed = FALSE)]_vars

(***************************************************************************)
(* C14.  StartPressed with inputs that parse but violate W >= 1, H >= 1,   *)
(* K <= W * H leaves the state unchanged with started = false, so that no  *)
(* board whose number of filled cells differs from its filled_count is     *)
(* installed.                                                              *)
(***************************************************************************)
C14_InvalidRefused ==
    [][((StartPressed \/ StartPressedPanic) /\ InputsParse /\ ~InputsValid)
       => (/\ panicked' = FALSE
           /\ game' = game
           /\ game'.menu.start_pressed = FALSE)]_vars

(***************************************************************************)
(* C15.  From every playing state (InProgress, Won or Lost), Reset sets    *)
(* winstate = InProgress and installs a new board of the same width,       *)
(* height and filled_count, every cell hidden and unmarked and exactly     *)
(* filled_count cells filled; the menu inputs and the started flag are     *)
(* unchanged.                                                              *)
(***************************************************************************)
\* What C15 says of a Reset step.
ResetEffect ==
    /\ game'.winstate = "InProgress"
    /\ game'.board.width = game.board.width
    /\ game'.board.height = game.board.height
    /\ game'.board.filled_count = game.board.filled_count
    /\ Len(game'.board.board_vec) = game.board.width * game.board.height
    /\ \A id \in 0..(Len(game'.board.board_vec) - 1) :
           Tile(game', id).hidden /\ ~Tile(game', id).marked
    /\ Cardinality(FilledIds(game')) = game.board.filled_count
    /\ game'.menu = game.menu

C15_ResetRebuilds ==
    [][(Reset /\ game.menu.start_pressed) => ResetEffect]_vars

(***************************************************************************)
(* C16.  GotoMenu replaces the session with the default one: started =     *)
(* false, winstate = InProgress, the three menu inputs back to "10", "10"  *)
(* and "65", and a placeholder board of 10 x 10 with 40 filled cells, all  *)
(* hidden and unmarked.                                                    *)
(***************************************************************************)
C16_GotoMenuDefaults ==
    [][GotoMenu
       => (/\ game'.menu.start_pressed = FALSE
           /\ game'.winstate = "InProgress"
           /\ game'.menu.width_input = <<"1", "0">>
           /\ game'.menu.height_input = <<"1", "0">>
           /\ game'.menu.filled_count_input = <<"6", "5">>
           /\ game'.board.width = 10
           /\ game'.board.height = 10
           /\ game'.board.filled_count = 40
           /\ Len(game'.board.board_vec) = 100
           /\ Cardinality(FilledIds(game')) = 40
           /\ \A id \in 0..(Len(game'.board.board_vec) - 1) :
                  Tile(game', id).hidden /\ ~Tile(game', id).marked)]_vars

\* A state GotoMenu is taken from: a lost game, started from edited inputs,
\* with revealed and marked cells, where the playfield offers the Menu button.
C16_Witness ==
    /\ Playing
    /\ game.winstate = "Lost"
    /\ game.menu.width_input # <<"1", "0">>
    /\ game.menu.filled_count_input # <<"6", "5">>
    /\ RevealedIds(game) # {}
    /\ MarkedIds(game) # {}
    /\ ENABLED GotoMenu

(***************************************************************************)
(* C17.  InputWidth(s), InputHeight(s) and InputFilledCount(s) each        *)
(* replace exactly their own menu text field with s as it is, parseable or *)
(* not; the other two fields, the started flag, the board and winstate are *)
(* unchanged.                                                              *)
(***************************************************************************)
C17_InputsVerbatim ==
    [][\A s \in InputStrings :
          /\ InputWidth(s)
             => game' = [game EXCEPT !.menu.width_input = s] /\ ~panicked'
          /\ InputHeight(s)
             => game' = [game EXCEPT !.menu.height_input = s] /\ ~panicked'
          /\ InputFilledCount(s)
             => game' = [game EXCEPT !.menu.filled_count_input = s] /\ ~panicked']_vars

\* A menu whose three fields were edited to three different strings, one of
\* them not a number, the placeholder board untouched.
C17_Witness ==
    /\ MenuShown
    /\ game.menu.width_input = <<"x">>
    /\ game.menu.height_input = <<"+", "1">>
    /\ game.menu.filled_count_input = <<>>
    /\ game.board.width = 10
    /\ game.winstate = "InProgress"

(***************************************************************************)
(* C18.  The front-end offers Reveal(id) and Mark(id) only while the       *)
(* playfield is shown (started = true) and winstate = InProgress: no step  *)
(* of the program that changes the state as the Reveal or the Mark handler *)
(* of a tile would starts in the menu or in Won or Lost.  (Both handlers   *)
(* leave the menu fields alone; that conjunct comes first only to spare    *)
(* the evaluation of the handlers on the steps of the menu.)               *)
(***************************************************************************)
C18_TilesOnlyInProgress ==
    [][\A id \in TileIds :
          (/\ game' # game
           /\ game'.menu = game.menu
           /\ game' \in {UpdateReveal(game, id), UpdateMark(game, id)})
          => (game.menu.start_pressed /\ game.winstate = "InProgress")]_vars

\* A lost game with a hidden cell whose Reveal would change the state, and a
\* cell whose Mark would: neither is offered.
C18_Witness ==
    /\ Playing
    /\ game.winstate = "Lost"
    /\ \E id \in TileIds : Tile(game, id).hidden /\ UpdateReveal(game, id) # game
    /\ \E id \in TileIds : UpdateMark(game, id) # game
    /\ ~TilePressable

(***************************************************************************)
(* C19.  In every reachable state every Reveal(id) or Mark(id) the         *)
(* front-end can emit has id in [0, W * H), and W * H is the length of the *)
(* cell sequence: the handlers and the reveal-all loop of the win-check    *)
(* index inside the cells.                                                 *)
(***************************************************************************)
C19_IdsInRange ==
    ~panicked =>
        /\ game.board.width * game.board.height = Len(Cells)
        /\ TileIds \subseteq CellIds

\* A game in progress on a board of several rows and several columns, every
\* cell of which has a tile button.
C19_Witness ==
    /\ Playing
    /\ TilePressable
    /\ game.board.width >= 2
    /\ game.board.height >= 2
    /\ TileIds = CellIds
    /\ RevealedIds(game) # {}

(***************************************************************************)
(* C20.  Reveal(id) and Mark(id) act on the board only in InProgress:      *)
(* delivered while winstate is Won or Lost, Reveal(id) leaves every hidden *)
(* flag unchanged and Mark(id) leaves every marked flag unchanged.         *)
(***************************************************************************)
C20_NoEffectWhenTerminal ==
    [][\A id \in TileIds :
          game.winstate \in {"Won", "Lost"}
          => (/\ RevealDelivered(id) => RevealedIds(game') = RevealedIds(game)
              /\ MarkDelivered(id) => MarkedIds(game') = MarkedIds(game))]_vars

(***************************************************************************)
(* C21.  With the messages the front-end offers, in every reachable state: *)
(* winstate = InProgress implies that no empty cell is revealed, and       *)
(* winstate = Lost implies that at least one empty cell is revealed.       *)
(***************************************************************************)
C21_WinstateMatchesBoard ==
    /\ game.winstate = "InProgress" => EmptyIds(game) \cap RevealedIds(game) = {}
    /\ game.winstate = "Lost" => EmptyIds(game) \cap RevealedIds(game) # {}

\* A game lost after a filled cell had been revealed: one empty cell and one
\* filled cell are revealed, another empty cell is still hidden.
C21_Witness ==
    /\ Playing
    /\ game.winstate = "Lost"
    /\ Cardinality(EmptyIds(game) \cap RevealedIds(game)) = 1
    /\ FilledIds(game) \cap RevealedIds(game) # {}
    /\ EmptyIds(game) \ RevealedIds(game) # {}

(***************************************************************************)
(* C22.  A Reveal(id) in InProgress that does not produce Won changes only *)
(* cells[id].hidden: every other cell keeps its hidden flag (a loss does   *)
(* not reveal the board); and under Reveal and Mark no cell goes from      *)
(* revealed back to hidden.                                                *)
(***************************************************************************)
C22_RevealFrame ==
    [][\A id \in TileIds :
          /\ (Reveal(id) /\ game.winstate = "InProgress" /\ game'.winstate # "Won")
             => game'.board = [game.board EXCEPT !.board_vec[id + 1].hidden = FALSE]
          /\ (Reveal(id) \/ Mark(id))
             => RevealedIds(game) \subseteq RevealedIds(game')]_vars

\* A game lost by its first reveal on a board of a filled cell and at least
\* two empty ones: the one cell is revealed, all others are still hidden.
C22_Witness ==
    /\ Playing
    /\ game.winstate = "Lost"
    /\ Cardinality(RevealedIds(game)) = 1
    /\ Cardinality(EmptyIds(game)) >= 2
    /\ FilledIds(game) # {}

(***************************************************************************)
(* C23.  Reveal, Mark and the three input edits never change the ground    *)
(* truth of the puzzle: the empty flag of each cell, the width, height and *)
(* filled_count of the board and the two clue vectors; only StartPressed,  *)
(* Reset and GotoMenu replace them.                                        *)
(***************************************************************************)
GroundTruth(g) ==
    [empty |-> [i \in 1..Len(g.board.board_vec) |-> g.board.board_vec[i].empty],
     width |-> g.board.width,
     height |-> g.board.height,
     filled_count |-> g.board.filled_count,
     vertical_count |-> g.board.vertical_count,
     horizontal_count |-> g.board.horizontal_count]

C23_GroundTruthKept ==
    [][/\ \A id \in TileIds :
              (Reveal(id) \/ Mark(id)) => GroundTruth(game') = GroundTruth(game)
       /\ \A s \in InputStrings :
              (InputWidth(s) \/ InputHeight(s) \/ InputFilledCount(s))
              => GroundTruth(game') = GroundTruth(game)
       /\ GroundTruth(game') # GroundTruth(game)
              => (StartPressed \/ StartPressedPanic \/ Reset \/ GotoMenu)]_vars

\* A game in progress on a board with clues, after a Reveal and a Mark, whose
\* clues are still those of its cells.
C23_Witness ==
    /\ Playing
    /\ game.winstate = "InProgress"
    /\ RevealedIds(game) # {}
    /\ MarkedIds(game) \ RevealedIds(game) # {}
    /\ \E c \in 1..game.board.width : Len(game.board.vertical_count[c]) >= 1
    /\ \E r \in 1..game.board.height : Len(game.board.horizontal_count[r]) >= 2
    /\ game.board.horizontal_count =
           [r \in 1..game.board.height |-> RunLengths(RowLine(game.board, r - 1))]

(***************************************************************************)
(* C24.  On every valid board in InProgress each Reveal of a still-hidden  *)
(* cell strictly decreases the number of hidden cells, of which there are  *)
(* at most W * H and, while the game is in progress, at least one; so a    *)
(* player who keeps revealing hidden cells, without Reset or GotoMenu,     *)
(* eventually reaches winstate Won or Lost, after at most W * H Reveals.   *)
(***************************************************************************)
HiddenCount(g) == Cardinality(0..(Len(g.board.board_vec) - 1) \ RevealedIds(g))

C24_GameEnds ==
    /\ []((Playing /\ game.winstate = "InProgress")
          => (/\ HiddenCount(game) >= 1
              /\ HiddenCount(game) <= game.board.width * game.board.height))
    /\ [][\A id \in TileIds :
             (Playing /\ game.winstate = "InProgress" /\ RevealHidden(id))
             => HiddenCount(game') < HiddenCount(game)]_vars
    /\ (Playing /\ game.winstate = "InProgress")
           ~> (game.winstate \in {"Won", "Lost"})

\* A game won by revealing each cell of a fully filled board of at least
\* three cells, one Reveal per cell.
C24_Witness ==
    /\ Playing
    /\ game.winstate = "Won"
    /\ Len(Cells) >= 3
    /\ FilledIds(game) = CellIds
    /\ MarkedIds(game) = {}

====
